---- MODULE Spec2Model ----
(***************************************************************************)
(* Presence tracking and camera-command delivery of the SoftcialDev API.   *)
(*                                                                         *)
(* The relational store (User, Presence, PresenceHistory, PendingCommand)  *)
(* is the shared state.  Every Azure Function is a request handler; the    *)
(* presence service calls are modelled await by await, because nothing in  *)
(* the code wraps their storage steps in a transaction.  Storage and       *)
(* transport failures are inputs of the actions.                           *)
(***************************************************************************)
EXTENDS Integers, Sequences, FiniteSets, TLC

\* ------------------------------------------------------------------ bounds

MaxTime == 2        \* the clock runs over 1..MaxTime
MaxRequests == 3    \* requests served that write to the store or the bus
MaxCalls == 2       \* presence service calls in flight at once
MaxCmds == 2        \* command messages put on the Service Bus

\* ---------------------------------------------------------------- nullable

\* A nullable column holds NULL or Some(value).
NULL == {}
Some(v) == {v}

\* ------------------------------------------------------------------- users

\* The User table of schema.prisma: id (uuid generated by the store),
\* azureAdObjectId (assigned by the directory), email, role, deletedAt,
\* supervisorId (nullable).
UserTable ==
  [ u1 |-> [azureAdObjectId |-> "o1", email |-> "e1@x", role |-> "Employee",
            deleted |-> FALSE, supervisorId |-> NULL],
    u2 |-> [azureAdObjectId |-> "o2", email |-> "e2@x", role |-> "Employee",
            deleted |-> FALSE, supervisorId |-> NULL],
    u3 |-> [azureAdObjectId |-> "o3", email |-> "a3@x", role |-> "Admin",
            deleted |-> FALSE, supervisorId |-> NULL],
    u4 |-> [azureAdObjectId |-> "o4", email |-> "d4@x", role |-> "Employee",
            deleted |-> TRUE, supervisorId |-> NULL] ]

\* Caller identities of tokens (o9 has no account) and e-mail inputs of
\* requests (E1@X is e1@x typed with capitals, n9@x has no account).
Oids == {"o1", "o2", "o3", "o4", "o9"}
Emails == {"e1@x", "e2@x", "a3@x", "d4@x", "E1@X", "n9@x"}
CommandTypes == {"START", "STOP"}

\* An id that is not a UUID; the ids of PendingCommand rows are 1, 2, ...
MalformedId == 0

\* z.enum(["online", "offline"]), z.enum(["START", "STOP"]) and
\* z.array(z.string().uuid()): what schema.parse accepts.
ValidStatus(status) == status \in {"online", "offline"}
ValidCommand(command) == command \in CommandTypes
ValidIdsAny(ids) == TRUE
ValidIds(ids) == \A i \in ids : i # MalformedId

\* The ids of User rows: those of UserTable and u5, the id of the row a
\* request may create for o9.  A row created anew for a directory account
\* is given the id paired with its object id here; rows that referenced a
\* removed account are gone by then (onDelete: Cascade).
UserIds == {"u1", "u2", "u3", "u4", "u5"}
IdOfOid == [o1 |-> "u1", o2 |-> "u2", o3 |-> "u3", o4 |-> "u4", o9 |-> "u5"]

\* Azure AD as Microsoft Graph shows it: the object id of the account an
\* e-mail names, matched without regard to case; NULL when there is none.
GraphUserId(email) ==
  IF email \in {"e1@x", "E1@X"} THEN Some("o1")
  ELSE IF email = "e2@x" THEN Some("o2")
  ELSE IF email = "a3@x" THEN Some("o3")
  ELSE IF email = "d4@x" THEN Some("o4")
  ELSE IF email = "n9@x" THEN Some("o9")
  ELSE NULL

\* claims.preferred_username of the token of a caller.
PreferredUsername(oid) ==
  IF oid = "o1" THEN "e1@x" ELSE IF oid = "o2" THEN "e2@x"
  ELSE IF oid = "o3" THEN "a3@x" ELSE IF oid = "o4" THEN "d4@x" ELSE "n9@x"

VARIABLES
  users,      \* User table: id -> row
  presence,   \* Presence table: userId -> NULL or Some(row)
  history,    \* PresenceHistory table: sequence of rows, the index is the id
  commands,   \* PendingCommand table: sequence of rows, the index is the id
  bus,        \* Service Bus topic: the messages in flight
  sent,       \* Web PubSub: the broadcasts accepted, in order
  calls,      \* presence service calls in flight
  clock,      \* what new Date() returns
  served,     \* number of writing requests accepted so far
  issued,     \* number of messages put on the Service Bus so far
  resp        \* what the function that just ended answered, until returned

vars == <<users, presence, history, commands, bus, sent, calls, clock, served, issued, resp>>

\* ----------------------------------------------------------------- lookups

\* prisma.user.findUnique({ where: { azureAdObjectId } })
FindByOid(oid) == {u \in DOMAIN users : users[u].azureAdObjectId = oid}

\* String.prototype.trim().toLowerCase() on the e-mail inputs.
ToLower(s) == IF s = "E1@X" THEN "e1@x" ELSE s

\* FindByEmail matching without regard to case.
FindByEmailAnyCase(email) ==
  {u \in DOMAIN users : ToLower(users[u].email) = ToLower(email)}

\* prisma.user.findUnique({ where: { email } }): an exact match.
FindByEmail(email) == {u \in DOMAIN users : users[u].email = email}

\* FindUserForPresence without the deletedAt filter.
FindUserForPresenceAnyRow(key) ==
  {u \in DOMAIN users : users[u].azureAdObjectId = key \/ users[u].email = key}

\* prisma.user.findFirst({ where: { OR: [{azureAdObjectId: key}, {email: key}],
\*                                  deletedAt: null } })
FindUserForPresence(key) ==
  {u \in DOMAIN users :
     /\ users[u].azureAdObjectId = key \/ users[u].email = key
     /\ ~users[u].deleted}

\* ---------------------------------------------------------------- presence

PresenceRow(status, now) == [status |-> status, lastSeenAt |-> now]

\* UpsertPresence writing "online" whatever status it is given.
UpsertPresenceOnline(p, uid, status, now) ==
  [p EXCEPT ![uid] = Some(PresenceRow("online", now))]

\* prisma.presence.upsert: one row per user, created or overwritten.
UpsertPresence(p, uid, status, now) ==
  [p EXCEPT ![uid] = Some(PresenceRow(status, now))]

\* CreateHistory that first closes the open rows of the account.
CreateHistoryClosingOpen(h, uid, now) ==
  Append([i \in 1..Len(h) |->
            IF h[i].userId = uid /\ h[i].disconnectedAt = NULL
            THEN [h[i] EXCEPT !.disconnectedAt = Some(now)] ELSE h[i]],
         [userId |-> uid, connectedAt |-> now, disconnectedAt |-> NULL])

\* prisma.presenceHistory.create({ connectedAt: now, disconnectedAt: null })
CreateHistory(h, uid, now) ==
  Append(h, [userId |-> uid, connectedAt |-> now, disconnectedAt |-> NULL])

\* LatestOpen ordered by connectedAt ascending: the oldest open row.
EarliestOpen(h, uid) ==
  LET open == {i \in 1..Len(h) : h[i].userId = uid /\ h[i].disconnectedAt = NULL}
  IN  {i \in open : \A j \in open : h[i].connectedAt <= h[j].connectedAt}

\* The rows findFirst({ userId, disconnectedAt: null }, orderBy connectedAt
\* desc) may return: an open row of the user with the greatest connectedAt
\* (the store picks among equal connectedAt).
LatestOpen(h, uid) ==
  LET open == {i \in 1..Len(h) : h[i].userId = uid /\ h[i].disconnectedAt = NULL}
  IN  {i \in open : \A j \in open : h[j].connectedAt <= h[i].connectedAt}

\* CloseHistory with the update lost: the row is left as it was.
CloseHistoryLost(h, id, now) == h

\* prisma.presenceHistory.update({ where: { id }, data: { disconnectedAt } })
CloseHistory(h, id, now) == [h EXCEPT ![id].disconnectedAt = Some(now)]

\* StatusOf with the default of a missing row turned to "online".
StatusOfDefaultOnline(p, uid) ==
  IF p[uid] = NULL THEN "online" ELSE (CHOOSE r \in p[uid] : TRUE).status

\* The status getPresenceStatus reads for an account: the Presence row's
\* status, "offline" when there is no row.
StatusOf(p, uid) ==
  IF p[uid] = NULL THEN "offline" ELSE (CHOOSE r \in p[uid] : TRUE).status

\* ------------------------------------------------------------------- Init

Init ==
  /\ users = UserTable
  /\ presence = [u \in UserIds |-> NULL]
  /\ history = << >>
  /\ commands = << >>
  /\ bus = {}
  /\ sent = << >>
  /\ calls = {}
  /\ clock = 1
  /\ served = 0
  /\ issued = 0
  /\ resp = [op |-> "none"]

\* --------------------------------------------------------------- the clock

\* No function invocation has an answer waiting to be returned.
Idle == resp.op = "none"

Tick ==
  /\ Idle
  /\ clock < MaxTime
  /\ clock' = clock + 1
  /\ UNCHANGED <<users, presence, history, commands, bus, sent, calls, served, resp, issued>>

\* The function invocation ends: its answer (ctx.res of an HTTP trigger, the
\* outcome of a bus trigger or of a service call) is handed to the runtime.
Return ==
  /\ ~Idle
  /\ resp' = [op |-> "none"]
  /\ UNCHANGED <<users, presence, history, commands, bus, sent, calls, clock, served, issued>>

\* ------------------------------------------------- PresenceUpdate handler

\* setUserOnline/setUserOffline past their lookup, at `now = new Date()`: a
\* call record is added to the calls in flight.  It carries, beside the
\* locals of the function, who called it (via) and two observations: wrote
\* (the tables it has written) and alone (no other call on the same account
\* was in flight at any time during this one).
BeginCall(via, status, u) ==
  {[c EXCEPT !.alone = c.alone /\ c.uid # u] : c \in calls} \cup
    {[n |-> served + 1, op |-> status, uid |-> u, now |-> clock,
      pc |-> "upsert", open |-> 0, wrote |-> {}, via |-> via,
      alone |-> (\A c \in calls : c.uid # u)]}

\* POST /api/PresenceUpdate up to the first write of the service call: the
\* handler's lookup of the caller, then setUserOnline/setUserOffline's own
\* lookup and `now = new Date()`.  A failing handler lookup is thrown inside
\* withAuth's try block (401); a failing service lookup is caught by the
\* handler (400).
PresenceUpdateBegin(oid, status, fail) ==
  /\ Idle
  /\ Cardinality(calls) < MaxCalls
  /\ served < MaxRequests
  /\ LET caller == FindByOid(oid)
         found  == FindUserForPresence(oid)
         Answer(st) == /\ resp' = [op |-> "PresenceUpdate", status |-> st,
                                   wrote |-> {}, kind |-> status]
                       /\ calls' = calls
                       /\ served' = served
     IN  IF ~ValidStatus(status) THEN Answer(400)
         ELSE IF fail = "handlerLookup" THEN Answer(401)
         ELSE IF caller = {} \/ \E u \in caller : users[u].deleted THEN Answer(401)
         ELSE IF fail = "serviceLookup" \/ found = {} THEN Answer(400)
         ELSE \E u \in found :
              /\ calls' = BeginCall("PresenceUpdate", status, u)
              /\ resp' = resp
              /\ served' = served + 1
  /\ UNCHANGED <<users, presence, history, commands, bus, sent, clock, issued>>

\* The service call ends by throwing: the PresenceUpdate handler answers
\* 400; changeUserRole does not catch, so withAuth's catch answers 401 (a
\* direct caller gets the error; 400 and 200 stand for thrown and returned
\* there).  Nothing the
\* call wrote before is undone.
Thrown(c) ==
  /\ calls' = calls \ {c}
  /\ resp' = [op |-> c.via, wrote |-> c.wrote,
              status |-> IF c.via = "ChangeUserRole" THEN 401 ELSE 400,
              kind |-> c.op, uid |-> c.uid, now |-> c.now, alone |-> c.alone]

\* The service call returns: the handler answers 200.
Returned(c, wrote) ==
  /\ calls' = calls \ {c}
  /\ resp' = [op |-> c.via, status |-> 200, wrote |-> wrote,
              kind |-> c.op, uid |-> c.uid, now |-> c.now, alone |-> c.alone]

\* await prisma.presence.upsert(...) of setUserOnline and setUserOffline.
PresenceUpsert(c, ok) ==
  /\ Idle
  /\ c \in calls /\ c.pc = "upsert"
  /\ IF ok
     THEN /\ presence' = UpsertPresence(presence, c.uid, c.op, c.now)
          /\ calls' = (calls \ {c}) \cup
               {[c EXCEPT !.pc = IF c.op = "online" THEN "create" ELSE "find",
                          !.wrote = {"presence"}]}
          /\ resp' = resp
     ELSE /\ presence' = presence
          /\ Thrown(c)
  /\ UNCHANGED <<users, history, commands, bus, sent, clock, served, issued>>

\* await prisma.presenceHistory.create(...) of setUserOnline.
PresenceCreate(c, ok) ==
  /\ Idle
  /\ c \in calls /\ c.pc = "create"
  /\ IF ok
     THEN /\ history' = CreateHistory(history, c.uid, c.now)
          /\ Returned(c, c.wrote \cup {"history"})
     ELSE /\ history' = history
          /\ Thrown(c)
  /\ UNCHANGED <<users, presence, commands, bus, sent, clock, served, issued>>

\* await prisma.presenceHistory.findFirst(...) of setUserOffline; with no
\* open row the call returns.
PresenceFind(c, ok) ==
  /\ Idle
  /\ c \in calls /\ c.pc = "find"
  /\ IF ~ok
     THEN Thrown(c)
     ELSE IF LatestOpen(history, c.uid) = {}
     THEN Returned(c, c.wrote)
     ELSE \E i \in LatestOpen(history, c.uid) :
            /\ calls' = (calls \ {c}) \cup {[c EXCEPT !.pc = "close", !.open = i]}
            /\ resp' = resp
  /\ UNCHANGED <<users, presence, history, commands, bus, sent, clock, served, issued>>

\* await prisma.presenceHistory.update(...) of setUserOffline.
PresenceClose(c, ok) ==
  /\ Idle
  /\ c \in calls /\ c.pc = "close"
  /\ IF ok
     THEN /\ history' = CloseHistory(history, c.open, c.now)
          /\ Returned(c, c.wrote \cup {"history"})
     ELSE /\ history' = history
          /\ Thrown(c)
  /\ UNCHANGED <<users, presence, commands, bus, sent, clock, served, issued>>

\* ------------------------------------------ presence service, called directly

\* setUserOnline(key) / setUserOffline(key) called with any reference, as
\* changeUserRole calls setUserOffline(userEmail): the lookup, then the call
\* proceeds as above.  A lookup that finds no row throws "User not found for
\* presence update".
PresenceServiceBegin(status, key, fail) ==
  /\ Idle
  /\ Cardinality(calls) < MaxCalls
  /\ served < MaxRequests
  /\ LET found == FindUserForPresence(key)
         Throws(e) == /\ resp' = [op |-> "presenceService", kind |-> status,
                                  key |-> key, result |-> e]
                      /\ UNCHANGED <<calls, served>>
     IN  IF fail THEN Throws("StorageError")
         ELSE IF found = {} THEN Throws("NotFound")
         ELSE \E u \in found :
              /\ calls' = BeginCall("setUserPresence", status, u)
              /\ resp' = resp
              /\ served' = served + 1
  /\ UNCHANGED <<users, presence, history, commands, bus, sent, clock, issued>>

\* getPresenceStatus(key): the lookup, then the read of the Presence row.
\* fail names the read that fails, "none" when none does.
GetPresenceStatus(key, fail) ==
  /\ Idle
  /\ LET found == FindUserForPresence(key)
         Ends(r) == resp' = [op |-> "presenceService", kind |-> "status",
                             key |-> key, result |-> r]
     IN  IF fail = "lookup" THEN Ends("StorageError")
         ELSE IF found = {} THEN Ends("NotFound")
         ELSE IF fail = "read" THEN Ends("StorageError")
         ELSE \E u \in found : Ends(StatusOf(presence, u))
  /\ UNCHANGED <<users, presence, history, commands, bus, sent, calls, clock,
                 served, issued>>

\* ------------------------------------------------------- pending commands

\* NewCommand with the row created already published.
NewCommandPublished(employeeId, command, timestamp, now) ==
  [employeeId |-> employeeId, command |-> command, timestamp |-> timestamp,
   published |-> TRUE, publishedAt |-> Some(now),
   acknowledged |-> FALSE, acknowledgedAt |-> NULL,
   attemptCount |-> 0, createdAt |-> now]

\* prisma.pendingCommand.create of createPendingCommand: published and
\* acknowledged default to false, attemptCount to 0, createdAt to now().
NewCommand(employeeId, command, timestamp, now) ==
  [employeeId |-> employeeId, command |-> command, timestamp |-> timestamp,
   published |-> FALSE, publishedAt |-> NULL,
   acknowledged |-> FALSE, acknowledgedAt |-> NULL,
   attemptCount |-> 0, createdAt |-> now]

\* The payload both delivery paths hand to sendToGroup.
Payload(id, cmd) == [id |-> id, command |-> cmd.command, timestamp |-> cmd.timestamp]

\* sendToGroup(groupName, payload) accepted by Web PubSub.
Broadcast(s, groupName, payload) ==
  Append(s, [group |-> groupName, payload |-> payload])

\* processCommand's update: { published: true, publishedAt: new Date() }.
MarkPublished(cs, id, now) ==
  [cs EXCEPT ![id].published = TRUE, ![id].publishedAt = Some(now)]

\* tryDeliverCommand's update: { published: true, publishedAt: new Date(),
\* attemptCount: { increment: 1 } }.
MarkDelivered(cs, id, now) ==
  [cs EXCEPT ![id].published = TRUE, ![id].publishedAt = Some(now),
             ![id].attemptCount = @ + 1]

\* PendingIds without the acknowledged filter.
PendingIdsAnyFlag(cs, employeeId) ==
  {i \in 1..Len(cs) : cs[i].employeeId = employeeId}

\* getPendingCommandsForEmployee: the ids of the employee's rows with
\* acknowledged = false.
PendingIds(cs, employeeId) ==
  {i \in 1..Len(cs) : cs[i].employeeId = employeeId /\ ~cs[i].acknowledged}

\* The lists findMany(..., orderBy: { createdAt: "asc" }) may return: those
\* rows in ascending createdAt (the store orders rows of equal createdAt
\* as it likes).
PendingLists(cs, employeeId) ==
  LET ids == PendingIds(cs, employeeId)
  IN  {q \in [1..Cardinality(ids) -> ids] :
         /\ \A a, b \in DOMAIN q : a # b => q[a] # q[b]
         /\ \A a, b \in DOMAIN q : a < b => cs[q[a]].createdAt <= cs[q[b]].createdAt}

\* MarkCommandsDelivered that also resets published on the rows it updates.
MarkCommandsDeliveredUnpublishing(cs, ids, now) ==
  [i \in 1..Len(cs) |->
     IF i \in ids
     THEN [cs[i] EXCEPT !.acknowledged = TRUE, !.acknowledgedAt = Some(now),
                        !.published = FALSE]
     ELSE cs[i]]

\* MarkCommandsDelivered with the id filter dropped: every row is updated.
MarkCommandsDeliveredAll(cs, ids, now) ==
  [i \in 1..Len(cs) |->
     [cs[i] EXCEPT !.acknowledged = TRUE, !.acknowledgedAt = Some(now)]]

\* MarkCommandsDelivered counting the acknowledgement as an attempt.
MarkCommandsDeliveredCounting(cs, ids, now) ==
  [i \in 1..Len(cs) |->
     IF i \in ids
     THEN [cs[i] EXCEPT !.acknowledged = TRUE, !.acknowledgedAt = Some(now),
                        !.attemptCount = @ + 1]
     ELSE cs[i]]

\* markCommandsDelivered: updateMany({ where: { id: { in: ids } } }) sets
\* acknowledged and acknowledgedAt on every row whose id is in ids.
MarkCommandsDelivered(cs, ids, now) ==
  [i \in 1..Len(cs) |->
     IF i \in ids
     THEN [cs[i] EXCEPT !.acknowledged = TRUE, !.acknowledgedAt = Some(now)]
     ELSE cs[i]]

\* UpdatedCount with the update restricted to rows not yet acknowledged.
UpdatedCountUnacknowledgedOnly(cs, ids) ==
  Cardinality({i \in 1..Len(cs) : i \in ids /\ ~cs[i].acknowledged})

\* result.count of that updateMany: the rows matched.
UpdatedCount(cs, ids) == Cardinality({i \in 1..Len(cs) : i \in ids})

\* ------------------------------------------------- CamaraCommand handler

\* The message sendAdminCommand puts on the Service Bus topic.
BusMessage(command, employeeEmail, now, seq) ==
  [command |-> command, employeeEmail |-> employeeEmail, timestamp |-> now,
   seq |-> seq]

\* POST /api/CamaraCommand.  Lookups that fail throw inside withAuth's try
\* block (401); a send that fails is caught by the handler (400).
CamaraCommand(oid, command, employeeEmail, fail) ==
  /\ Idle
  /\ served < MaxRequests
  /\ issued < MaxCmds
  /\ LET caller == FindByOid(oid)
         target == FindByEmail(employeeEmail)
         Answer(st) == /\ resp' = [op |-> "CamaraCommand", status |-> st,
                                   caller |-> oid, employeeEmail |-> employeeEmail,
                                   command |-> command, cause |-> fail]
                       /\ UNCHANGED <<bus, served, issued>>
     IN  IF fail = "callerLookup" THEN Answer(401)
         ELSE IF caller = {} \/ \E u \in caller : users[u].deleted THEN Answer(401)
         ELSE IF \E u \in caller : users[u].role \notin {"Admin", "Supervisor"}
         THEN Answer(401)
         ELSE IF ~ValidCommand(command) THEN Answer(400)
         ELSE IF fail = "targetLookup" THEN Answer(401)
         ELSE IF \/ target = {}
                 \/ \E u \in target : users[u].deleted \/ users[u].role # "Employee"
         THEN Answer(400)
         ELSE IF fail = "send" THEN Answer(400)
         ELSE /\ bus' = bus \cup {BusMessage(command, employeeEmail, clock, issued + 1)}
              /\ served' = served + 1
              /\ issued' = issued + 1
              /\ resp' = [op |-> "CamaraCommand", status |-> 200,
                          caller |-> oid, employeeEmail |-> employeeEmail,
                          command |-> command, cause |-> fail,
                          msg |-> BusMessage(command, employeeEmail, clock, issued + 1)]
  /\ UNCHANGED <<users, presence, history, commands, sent, calls, clock>>

\* ------------------------------------------------ ProcessCommand function

\* AfterPersist without the inner try/catch: a broadcast or an update that
\* fails ends the function with the error.
AfterPersistRethrows(created, id, groupName, fail, now) ==
  IF fail = "broadcast"
  THEN [commands |-> created, sent |-> sent, outcome |-> "thrown"]
  ELSE IF fail = "update"
  THEN [commands |-> created,
        sent |-> Broadcast(sent, groupName, Payload(id, created[id])),
        outcome |-> "thrown"]
  ELSE [commands |-> MarkPublished(created, id, now),
        sent |-> Broadcast(sent, groupName, Payload(id, created[id])),
        outcome |-> "delivered"]

\* Steps 4 and 5 of processCommand, inside its inner try/catch: broadcast
\* to the group named by the normalized e-mail, then mark the row published.
\* A broadcast or an update that fails is logged and the function returns
\* normally.  fail names the step that fails, "none" when none does.
AfterPersist(created, id, groupName, fail, now) ==
  IF fail = "broadcast"
  THEN [commands |-> created, sent |-> sent, outcome |-> "pending"]
  ELSE IF fail = "update"
  THEN [commands |-> created,
        sent |-> Broadcast(sent, groupName, Payload(id, created[id])),
        outcome |-> "pending"]
  ELSE [commands |-> MarkPublished(created, id, now),
        sent |-> Broadcast(sent, groupName, Payload(id, created[id])),
        outcome |-> "delivered"]

\* The Service Bus trigger, for one message.  A lookup or a create that
\* fails is rethrown to the runtime, which redelivers the message or moves
\* it to the dead-letter queue.
ProcessCommand(m, fail, redeliver) ==
  /\ Idle
  /\ m \in bus
  /\ LET email == ToLower(m.employeeEmail)
         user  == FindByEmail(email)
         id    == Len(commands) + 1
         Ended(o) == resp' = [op |-> "ProcessCommand", outcome |-> o,
                              id |-> 0, cause |-> fail, online |-> FALSE]
     IN  IF fail = "lookup"
         THEN /\ bus' = IF redeliver THEN bus ELSE bus \ {m}
              /\ Ended("thrown")
              /\ UNCHANGED <<commands, sent>>
         ELSE IF user = {}
         THEN /\ bus' = bus \ {m}
              /\ Ended("dropped")
              /\ UNCHANGED <<commands, sent>>
         ELSE IF fail = "create"
         THEN /\ bus' = IF redeliver THEN bus ELSE bus \ {m}
              /\ Ended("thrown")
              /\ UNCHANGED <<commands, sent>>
         ELSE \E u \in user :
              LET created == Append(commands, NewCommand(u, m.command, m.timestamp, clock))
                  after   == AfterPersist(created, id, email, fail, clock)
              IN  /\ bus' = IF after.outcome = "thrown" /\ redeliver THEN bus ELSE bus \ {m}
                  /\ commands' = after.commands
                  /\ sent' = after.sent
                  /\ resp' = [op |-> "ProcessCommand", outcome |-> after.outcome,
                              id |-> id, cause |-> fail,
                              online |-> (StatusOf(presence, u) = "online")]
  /\ UNCHANGED <<users, presence, history, calls, clock, served, issued>>

\* ------------------------------------------------------ tryDeliverCommand

\* The group tryDeliverCommand hands to sendToGroup: pendingCmd.employeeId.
TryDeliverGroup(cmd) == cmd.employeeId

\* The group the WebPubSubToken function scopes an account's client token
\* to: user.email.trim().toLowerCase().
TokenGroup(u) == ToLower(users[u].email)

\* tryDeliverCommand(pendingCmd) for a stored row, as a retry sweep would
\* call it.  getPresenceStatus and sendToGroup are both given the row's
\* employeeId; what either throws is thrown by tryDeliverCommand.
TryDeliverCommand(id, channelUp) ==
  /\ Idle
  /\ id \in 1..Len(commands)
  /\ LET cmd    == commands[id]
         found  == FindUserForPresence(cmd.employeeId)
         online == StatusOf(presence, cmd.employeeId) = "online"
         Result(r, n) ==
           resp' = [op |-> "tryDeliverCommand", result |-> r, id |-> id,
                    fresh |-> (~cmd.published /\ cmd.attemptCount = 0),
                    online |-> online, channelUp |-> channelUp,
                    broadcasts |-> n, changed |-> (commands' # commands)]
     IN  IF found = {}
         THEN UNCHANGED <<commands, sent>> /\ Result("threw", 0)
         ELSE IF \E u \in found : StatusOf(presence, u) # "online"
         THEN UNCHANGED <<commands, sent>> /\ Result("false", 0)
         ELSE IF ~channelUp
         THEN UNCHANGED <<commands, sent>> /\ Result("threw", 0)
         ELSE /\ sent' = Broadcast(sent, TryDeliverGroup(cmd), Payload(id, cmd))
              /\ commands' = MarkDelivered(commands, id, clock)
              /\ Result("true", 1)
  /\ UNCHANGED <<users, presence, history, bus, calls, clock, served, issued>>

\* ------------------------------- pending command service, called directly

\* createPendingCommand(employeeId, command, timestamp).  The create fails
\* when the store does (fail) and when employeeId references no User row.
CreatePendingCommand(employeeId, command, timestamp, fail) ==
  /\ Idle
  /\ served < MaxRequests
  /\ Len(commands) < MaxCmds
  /\ served' = served + 1
  /\ IF fail \/ employeeId \notin DOMAIN users
     THEN /\ commands' = commands
          /\ resp' = [op |-> "createPendingCommand", result |-> "threw", id |-> 0,
                      employeeId |-> employeeId, command |-> command,
                      timestamp |-> timestamp]
     ELSE /\ commands' = Append(commands, NewCommand(employeeId, command, timestamp, clock))
          /\ resp' = [op |-> "createPendingCommand", result |-> "created",
                      id |-> Len(commands) + 1,
                      employeeId |-> employeeId, command |-> command,
                      timestamp |-> timestamp]
  /\ UNCHANGED <<users, presence, history, bus, sent, calls, clock, issued>>

\* getPendingCommandsForEmployee(employeeId)
GetPendingCommandsForEmployee(employeeId, fail) ==
  /\ Idle
  /\ IF fail
     THEN resp' = [op |-> "getPendingCommandsForEmployee", result |-> "threw",
                   employeeId |-> employeeId, list |-> << >>]
     ELSE \E q \in PendingLists(commands, employeeId) :
            resp' = [op |-> "getPendingCommandsForEmployee", result |-> "returned",
                     employeeId |-> employeeId, list |-> q]
  /\ UNCHANGED <<users, presence, history, commands, bus, sent, calls, clock,
                 served, issued>>

\* markCommandsDelivered(ids)
MarkCommandsDeliveredCall(ids, fail) ==
  /\ Idle
  /\ served < MaxRequests
  /\ served' = served + 1
  /\ IF fail
     THEN /\ commands' = commands
          /\ resp' = [op |-> "markCommandsDelivered", result |-> "threw",
                      ids |-> ids, count |-> 0]
     ELSE /\ commands' = MarkCommandsDelivered(commands, ids, clock)
          /\ resp' = [op |-> "markCommandsDelivered", result |-> "returned",
                      ids |-> ids, count |-> UpdatedCount(commands, ids)]
  /\ UNCHANGED <<users, presence, history, bus, sent, calls, clock, issued>>

\* ------------------------------------------------- ChangeUserRole handler

\* prisma.user.create of findOrCreateAdmin and of upsertUserRole's create
\* branch.
NewUser(us, oid, email, role) ==
  [u \in DOMAIN us \cup {IdOfOid[oid]} |->
     IF u = IdOfOid[oid]
     THEN [azureAdObjectId |-> oid, email |-> email, role |-> role,
           deleted |-> FALSE, supervisorId |-> NULL]
     ELSE us[u]]

\* The accounts a delete of the accounts xs removes: xs and, by onDelete:
\* Cascade on the supervisor relation, every account supervised by a
\* removed one.
RECURSIVE Removed(_, _)
Removed(us, xs) ==
  LET more == {u \in DOMAIN us : us[u].supervisorId \cap xs # {}} \ xs
  IN  IF more = {} THEN xs ELSE Removed(us, xs \cup more)

\* The rows left of a table when the rows of account x are removed by
\* onDelete: Cascade: a removed row keeps its place, so that ids stay what
\* they were, and carries an owner no query matches.
CascadeHistory(h, xs) ==
  [i \in 1..Len(h) |-> IF h[i].userId \in xs THEN [h[i] EXCEPT !.userId = "removed"] ELSE h[i]]

CascadeCommands(cs, xs) ==
  [i \in 1..Len(cs) |->
     IF cs[i].employeeId \in xs THEN [cs[i] EXCEPT !.employeeId = "removed"] ELSE cs[i]]

\* POST /api/ChangeUserRole up to the end of its own writes.  Everything
\* thrown inside withAuth's try block is answered 401.  fail names the step
\* that fails: the caller lookup, a Graph call, the user upsert or delete.
\* When the new role is Employee the handler goes on with
\* setUserOffline(userEmail) and answers when that call has ended.
ChangeUserRole(oid, userEmail, newRole, fail) ==
  /\ Idle
  /\ served < MaxRequests
  /\ LET found    == FindByOid(oid)
         clash    == FindByEmail(PreferredUsername(oid))
         users1   == IF found = {} /\ clash = {}
                     THEN NewUser(users, oid, PreferredUsername(oid), "Admin")
                     ELSE users
         caller   == {u \in DOMAIN users1 : users1[u].azureAdObjectId = oid}
         target   == {u \in DOMAIN users1 : users1[u].email = userEmail}
         sameOid  == {u \in DOMAIN users1 :
                        users1[u].azureAdObjectId \in GraphUserId(userEmail)}
         Answer(st, us) ==
           /\ resp' = [op |-> "ChangeUserRole", status |-> st, caller |-> oid,
                       userEmail |-> userEmail, newRole |-> newRole]
           /\ users' = us
           /\ served' = IF us = users THEN served ELSE served + 1
           /\ UNCHANGED <<presence, history, commands, calls>>
     IN  IF fail = "callerLookup" THEN Answer(401, users)
         ELSE IF found = {} /\ clash # {} THEN Answer(401, users)
         ELSE IF \E u \in caller : users1[u].deleted THEN Answer(401, users1)
         ELSE IF \E u \in caller : users1[u].role # "Admin" THEN Answer(403, users1)
         ELSE IF fail = "graphToken" THEN Answer(400, users1)
         ELSE IF GraphUserId(userEmail) = NULL THEN Answer(400, users1)
         ELSE IF fail = "graph" THEN Answer(401, users1)
         ELSE IF newRole = "none"
         THEN IF target = {} \/ fail = "store"
              THEN Answer(401, users1)
              ELSE LET gone == Removed(users1, target)
                   IN
                   /\ users' = [u \in DOMAIN users1 \ gone |-> users1[u]]
                   /\ presence' = [u \in DOMAIN presence |->
                                     IF u \in gone THEN NULL ELSE presence[u]]
                   /\ history' = CascadeHistory(history, gone)
                   /\ commands' = CascadeCommands(commands, gone)
                   /\ served' = served + 1
                   /\ calls' = calls
                   /\ resp' = [op |-> "ChangeUserRole", status |-> 200, caller |-> oid,
                               userEmail |-> userEmail, newRole |-> newRole]
         ELSE IF fail = "store" \/ (target = {} /\ sameOid # {})
         THEN Answer(401, users1)
         ELSE LET users2 ==
                    IF target = {}
                    THEN NewUser(users1, CHOOSE o \in GraphUserId(userEmail) : TRUE,
                                 userEmail, newRole)
                    ELSE [u \in DOMAIN users1 |->
                            IF u \in target
                            THEN [users1[u] EXCEPT !.role = newRole,
                                                   !.supervisorId = NULL]
                            ELSE users1[u]]
                  live == {u \in DOMAIN users2 :
                             users2[u].email = userEmail /\ ~users2[u].deleted}
              IN  IF newRole # "Employee" THEN Answer(200, users2)
                  ELSE IF live = {} THEN Answer(401, users2)
                  ELSE \E u \in live :
                       /\ users' = users2
                       /\ calls' = BeginCall("ChangeUserRole", "offline", u)
                       /\ served' = served + 1
                       /\ resp' = resp
                       /\ UNCHANGED <<presence, history, commands>>
  /\ UNCHANGED <<bus, sent, clock, issued>>

\* ------------------------------------------------ ChangeSupervisor handler

\* POST /api/ChangeSupervisor.  A lookup that fails throws inside withAuth's
\* try block (401); an updateMany that fails is caught by the handler (400).
\* The updateMany matches the rows whose e-mail is in userEmails and whose
\* deletedAt is null.
ChangeSupervisor(oid, userEmails, newSupervisorEmail, fail) ==
  /\ Idle
  /\ served < MaxRequests
  /\ LET caller     == FindByOid(oid)
         supervisor == FindByEmail(newSupervisorEmail)
         matched    == {u \in DOMAIN users :
                          users[u].email \in userEmails /\ ~users[u].deleted}
         Answer(st, n) ==
           resp' = [op |-> "ChangeSupervisor", status |-> st, caller |-> oid,
                    userEmails |-> userEmails,
                    newSupervisorEmail |-> newSupervisorEmail,
                    updatedCount |-> n, cause |-> fail]
         Refuse(st) == Answer(st, 0) /\ UNCHANGED <<users, served>>
     IN  IF fail = "callerLookup" THEN Refuse(401)
         ELSE IF caller = {} \/ \E u \in caller : users[u].deleted THEN Refuse(401)
         ELSE IF \E u \in caller : users[u].role # "Admin" THEN Refuse(403)
         ELSE IF userEmails = {} THEN Refuse(400)
         ELSE IF fail = "supervisorLookup" THEN Refuse(401)
         ELSE IF supervisor = {} \/ \E u \in supervisor : users[u].deleted
         THEN Refuse(400)
         ELSE IF \E u \in supervisor : users[u].role # "Supervisor" THEN Refuse(400)
         ELSE IF fail = "update" THEN Refuse(400)
         ELSE \E sup \in supervisor :
              /\ users' = [u \in DOMAIN users |->
                             IF u \in matched
                             THEN [users[u] EXCEPT !.supervisorId = Some(sup)]
                             ELSE users[u]]
              /\ served' = served + 1
              /\ Answer(200, Cardinality(matched))
  /\ UNCHANGED <<presence, history, commands, bus, sent, calls, clock, issued>>

\* deletedAt of an account is set.  No function of this code base writes
\* the column; every lookup reads it.
SoftDelete(u) ==
  /\ Idle
  /\ u \in DOMAIN users
  /\ ~users[u].deleted
  /\ users' = [users EXCEPT ![u].deleted = TRUE]
  /\ UNCHANGED <<presence, history, commands, bus, sent, calls, clock, served,
                 issued, resp>>

\* ------------------------------------------- FetchPendingCommands handler

\* pendingList.reduce((prev, curr) => curr.timestamp > prev.timestamp ? curr
\* : prev) from position k on, prev being the row kept so far.
RECURSIVE Reduce(_, _, _, _)
Reduce(cs, q, k, prev) ==
  IF k > Len(q) THEN prev
  ELSE Reduce(cs, q, k + 1,
              IF cs[q[k]].timestamp > cs[prev].timestamp THEN q[k] ELSE prev)

\* LatestPending without the reduce: the oldest-created row of the list.
OldestPending(cs, q) ==
  IF Len(q) = 0 THEN NULL ELSE Some(q[1])

\* `latest` of the handler: null for an empty list, else the reduce of the
\* list, which has no initial value and so starts from its first row.
LatestPending(cs, q) ==
  IF Len(q) = 0 THEN NULL ELSE Some(Reduce(cs, q, 2, q[1]))

\* GET /api/FetchPendingCommands
FetchPendingCommands(oid, fail) ==
  /\ Idle
  /\ LET caller == FindByOid(oid)
     IN  IF fail = "callerLookup"
         THEN resp' = [op |-> "FetchPendingCommands", status |-> 401]
         ELSE IF caller = {} \/ \E u \in caller : users[u].deleted
         THEN resp' = [op |-> "FetchPendingCommands", status |-> 401]
         ELSE IF fail = "query"
         THEN resp' = [op |-> "FetchPendingCommands", status |-> 400]
         ELSE \E u \in caller : \E q \in PendingLists(commands, u) :
                resp' = [op |-> "FetchPendingCommands", status |-> 200, uid |-> u,
                         pending |-> LatestPending(commands, q)]
  /\ UNCHANGED <<users, presence, history, commands, bus, sent, calls, clock, served, issued>>

\* --------------------------------------------- AcknowledgeCommand handler

\* POST /api/AcknowledgeCommand
AcknowledgeCommand(oid, ids, fail) ==
  /\ Idle
  /\ served < MaxRequests
  /\ LET caller == FindByOid(oid)
         already == {i \in ids \cap (1..Len(commands)) : commands[i].acknowledged}
         Answer(st, named, n) ==
           resp' = [op |-> "AcknowledgeCommand", status |-> st, caller |-> oid,
                    ids |-> named, updatedCount |-> n, already |-> already,
                    cause |-> fail, body |-> ids]
         Refuse(st) == Answer(st, {}, 0) /\ UNCHANGED <<commands, served>>
     IN  IF fail = "callerLookup" THEN Refuse(401)
         ELSE IF caller = {} \/ \E u \in caller : users[u].deleted THEN Refuse(401)
         ELSE IF \E u \in caller : users[u].role # "Employee" THEN Refuse(401)
         ELSE IF ~ValidIds(ids) THEN Refuse(400)
         ELSE IF fail = "update" THEN Refuse(400)
         ELSE /\ commands' = MarkCommandsDelivered(commands, ids, clock)
              /\ served' = served + 1
              /\ Answer(200, ids, UpdatedCount(commands, ids))
  /\ UNCHANGED <<users, presence, history, bus, sent, calls, clock, issued>>

\* ------------------------------------------------------------------- Next

\* The request inputs: the employees' tokens, a deleted account's and an
\* unknown one for the employee endpoints; the admin's and an employee's for
\* the command endpoint; the ids a client may name, one of them never issued.
PresenceCallers == {"o1", "o2", "o4", "o9"}
CommandCallers == {"o3", "o1", "o9"}
CommandIds == 1..MaxRequests

\* The request bodies: a status, a command kind and ids no schema accepts
\* next to the well-formed ones.
StatusInputs == {"online", "offline", "away"}
CommandInputs == CommandTypes \cup {"PAUSE"}
IdInputs == CommandIds \cup {MalformedId}

\* The references the presence service is called with directly: an object
\* id and an e-mail of a live account, those of a soft-deleted account
\* and one that names no account.
PresenceRefs == {"o1", "e2@x", "o4", "d4@x", "n9@x"}

\* The e-mails role changes and commands name: an employee's, the same
\* typed with capitals, one of a directory account with no row, and one the
\* directory does not know.
RoleTargets == {"e1@x", "E1@X", "n9@x", "q0@x"}

\* The User.id values the pending command service is called with: two
\* employees and an id that references no row.
UserRefs == {"u1", "u2", "u9"}

\* The presence tracker alone: concurrent PresenceUpdate requests with
\* storage failures.
NextPresence ==
  \/ Tick
  \/ Return
  \/ \E oid \in PresenceCallers, status \in {"online", "offline"},
        fail \in {"none", "handlerLookup", "serviceLookup"} :
       PresenceUpdateBegin(oid, status, fail)
  \/ \E c \in calls, ok \in BOOLEAN : PresenceUpsert(c, ok)
  \/ \E c \in calls, ok \in BOOLEAN : PresenceCreate(c, ok)
  \/ \E c \in calls, ok \in BOOLEAN : PresenceFind(c, ok)
  \/ \E c \in calls, ok \in BOOLEAN : PresenceClose(c, ok)

\* PresenceUpdate requests of the employees running concurrently, every
\* storage statement succeeding.
NextInterleave ==
  \/ Tick
  \/ Return
  \/ \E oid \in {"o1", "o2"}, status \in {"online", "offline"} :
       PresenceUpdateBegin(oid, status, "none")
  \/ \E c \in calls : PresenceUpsert(c, TRUE)
  \/ \E c \in calls : PresenceCreate(c, TRUE)
  \/ \E c \in calls : PresenceFind(c, TRUE)
  \/ \E c \in calls : PresenceClose(c, TRUE)

\* The presence service called directly, with any reference, concurrently
\* and with storage failures.
NextService ==
  \/ Tick
  \/ Return
  \/ \E status \in {"online", "offline"}, key \in PresenceRefs, fail \in BOOLEAN :
       PresenceServiceBegin(status, key, fail)
  \/ \E key \in PresenceRefs, fail \in {"none", "lookup", "read"} :
       GetPresenceStatus(key, fail)
  \/ \E c \in calls, ok \in BOOLEAN : PresenceUpsert(c, ok)
  \/ \E c \in calls, ok \in BOOLEAN : PresenceCreate(c, ok)
  \/ \E c \in calls, ok \in BOOLEAN : PresenceFind(c, ok)
  \/ \E c \in calls, ok \in BOOLEAN : PresenceClose(c, ok)

\* The command queue, with the employees' presence changing underneath it:
\* PresenceUpdate requests here come from employee u1, one at a time, and
\* meet no storage failure.
NextQueue ==
  \/ Tick
  \/ Return
  \/ \E oid \in {"o1"}, status \in {"online", "offline"} :
       calls = {} /\ PresenceUpdateBegin(oid, status, "none")
  \/ \E c \in calls : PresenceUpsert(c, TRUE)
  \/ \E c \in calls : PresenceCreate(c, TRUE)
  \/ \E c \in calls : PresenceFind(c, TRUE)
  \/ \E c \in calls : PresenceClose(c, TRUE)
  \/ \E oid \in CommandCallers, command \in CommandTypes, email \in Emails,
        fail \in {"none", "callerLookup", "targetLookup", "send"} :
       CamaraCommand(oid, command, email, fail)
  \/ \E m \in bus, fail \in {"none", "lookup", "create", "broadcast", "update"},
        redeliver \in BOOLEAN :
       ProcessCommand(m, fail, redeliver)
  \/ \E id \in CommandIds, channelUp \in BOOLEAN : TryDeliverCommand(id, channelUp)
  \/ \E oid \in PresenceCallers, fail \in {"none", "callerLookup", "query"} :
       FetchPendingCommands(oid, fail)
  \/ \E oid \in PresenceCallers, ids \in SUBSET CommandIds,
        fail \in {"none", "callerLookup", "update"} :
       AcknowledgeCommand(oid, ids, fail)

\* The three validated endpoints with well-formed and malformed bodies, the
\* callers each of them admits and refuses, and the queue function that
\* stores what the command endpoint sent.
NextValidation ==
  \/ Return
  \/ \E oid \in {"o1", "o9"}, status \in StatusInputs :
       PresenceUpdateBegin(oid, status, "none")
  \/ \E c \in calls : PresenceUpsert(c, TRUE)
  \/ \E c \in calls : PresenceCreate(c, TRUE)
  \/ \E c \in calls : PresenceFind(c, TRUE)
  \/ \E c \in calls : PresenceClose(c, TRUE)
  \/ \E oid \in CommandCallers, command \in CommandInputs,
        fail \in {"none", "callerLookup"} :
       CamaraCommand(oid, command, "e1@x", fail)
  \/ \E m \in bus : ProcessCommand(m, "none", FALSE)
  \/ \E oid \in {"o1", "o3"}, ids \in SUBSET IdInputs,
        fail \in {"none", "callerLookup", "update"} :
       AcknowledgeCommand(oid, ids, fail)

\* Role changes by the admin next to the presence reports of employee o1,
\* every storage statement succeeding.
NextRole ==
  \/ Tick
  \/ Return
  \/ \E status \in {"online", "offline"} : PresenceUpdateBegin("o1", status, "none")
  \/ \E c \in calls : PresenceUpsert(c, TRUE)
  \/ \E c \in calls : PresenceCreate(c, TRUE)
  \/ \E c \in calls : PresenceFind(c, TRUE)
  \/ \E c \in calls : PresenceClose(c, TRUE)
  \/ \E userEmail \in {"e1@x", "n9@x"}, newRole \in {"Employee", "Supervisor"} :
       calls = {} /\ ChangeUserRole("o3", userEmail, newRole, "none")

\* Supervisor reassignment by the admin and by an employee, next to the
\* role changes that make an account a Supervisor or remove it.
NextSupervisor ==
  \/ Return
  \/ \E userEmail \in {"e1@x", "e2@x"}, newRole \in {"Supervisor", "Employee", "none"} :
       calls = {} /\ ChangeUserRole("o3", userEmail, newRole, "none")
  \/ \E c \in calls : PresenceUpsert(c, TRUE)
  \/ \E c \in calls : PresenceFind(c, TRUE)
  \/ SoftDelete("u2")
  \/ \E oid \in {"o3", "o1", "o9"}, userEmails \in SUBSET {"e1@x", "e2@x", "a3@x", "d4@x"},
        newSupervisorEmail \in {"e1@x", "e2@x", "n9@x"},
        fail \in {"none", "callerLookup", "supervisorLookup", "update"} :
       ChangeSupervisor(oid, userEmails, newSupervisorEmail, fail)

\* One employee's client polling: the admin issues commands for e1@x, the
\* queue function stores them, and o1 fetches and acknowledges.
NextPolling ==
  \/ Tick
  \/ Return
  \/ \E command \in CommandTypes : CamaraCommand("o3", command, "e1@x", "none")
  \/ \E m \in bus : ProcessCommand(m, "none", FALSE)
  \/ FetchPendingCommands("o1", "none")
  \/ \E ids \in SUBSET CommandIds : AcknowledgeCommand("o1", ids, "none")

\* Every answer is handed back to its caller.
FairPolling == WF_vars(Return)

\* The pending command service called directly, with employee u1's presence
\* changing underneath it.
NextCommands ==
  \/ Tick
  \/ Return
  \/ \E status \in {"online", "offline"} :
       calls = {} /\ PresenceUpdateBegin("o1", status, "none")
  \/ \E c \in calls : PresenceUpsert(c, TRUE)
  \/ \E c \in calls : PresenceCreate(c, TRUE)
  \/ \E c \in calls : PresenceFind(c, TRUE)
  \/ \E c \in calls : PresenceClose(c, TRUE)
  \/ \E employeeId \in UserRefs, command \in CommandTypes, timestamp \in 1..MaxTime,
        fail \in BOOLEAN :
       CreatePendingCommand(employeeId, command, timestamp, fail)
  \/ \E id \in CommandIds, channelUp \in BOOLEAN : TryDeliverCommand(id, channelUp)
  \/ \E employeeId \in UserRefs, fail \in BOOLEAN :
       GetPendingCommandsForEmployee(employeeId, fail)
  \/ \E ids \in SUBSET CommandIds, fail \in BOOLEAN :
       MarkCommandsDeliveredCall(ids, fail)

\* Accounts changing under the command pipeline: role changes by the
\* admin, an employee and an unknown caller, one at a time, the soft delete
\* of employee u1, and commands issued by the admin.
NextAccounts ==
  \/ Return
  \/ \E oid \in CommandCallers, userEmail \in RoleTargets,
        newRole \in {"Supervisor", "Admin", "Employee", "none"},
        fail \in {"none", "callerLookup", "graphToken", "graph", "store"} :
       calls = {} /\ ChangeUserRole(oid, userEmail, newRole, fail)
  \/ \E c \in calls, ok \in BOOLEAN : PresenceUpsert(c, ok)
  \/ \E c \in calls, ok \in BOOLEAN : PresenceFind(c, ok)
  \/ SoftDelete("u1")
  \/ \E oid \in CommandCallers, email \in RoleTargets,
        fail \in {"none", "callerLookup", "targetLookup", "send"} :
       CamaraCommand(oid, "START", email, fail)
  \/ \E m \in bus, fail \in {"none", "lookup", "create", "broadcast", "update"},
        redeliver \in BOOLEAN :
       ProcessCommand(m, fail, redeliver)

\* The command pipeline for employee u1 with the retry sweep the queue
\* exposes tryDeliverCommand for: commands issued by the admin, processed
\* with or without a failing broadcast, u1 reporting presence, and the sweep
\* calling tryDeliverCommand on stored rows.
NextRetry ==
  \/ Return
  \/ \E status \in {"online", "offline"} :
       calls = {} /\ PresenceUpdateBegin("o1", status, "none")
  \/ \E c \in calls : PresenceUpsert(c, TRUE)
  \/ \E c \in calls : PresenceCreate(c, TRUE)
  \/ \E c \in calls : PresenceFind(c, TRUE)
  \/ \E c \in calls : PresenceClose(c, TRUE)
  \/ \E command \in CommandTypes : CamaraCommand("o3", command, "e1@x", "none")
  \/ \E m \in bus, fail \in {"none", "broadcast", "update"} :
       ProcessCommand(m, fail, FALSE)
  \/ \E id \in CommandIds, channelUp \in BOOLEAN : TryDeliverCommand(id, channelUp)

\* What the schedule guarantees: a function that has its answer returns, a
\* service call in flight takes its next step, a message on the bus is
\* processed, and the sweep keeps calling tryDeliverCommand on every stored
\* row with the broadcast channel up.
FairRetry ==
  /\ WF_vars(Return)
  /\ SF_vars(\E c \in calls : PresenceUpsert(c, TRUE))
  /\ SF_vars(\E c \in calls : PresenceCreate(c, TRUE))
  /\ SF_vars(\E c \in calls : PresenceFind(c, TRUE))
  /\ SF_vars(\E c \in calls : PresenceClose(c, TRUE))
  /\ SF_vars(\E m \in bus, fail \in {"none", "broadcast", "update"} :
               ProcessCommand(m, fail, FALSE))
  /\ \A id \in CommandIds : SF_vars(TryDeliverCommand(id, TRUE))

Next == NextPresence \/ NextService \/ NextCommands \/ NextQueue \/ NextAccounts
          \/ NextRetry \/ NextValidation \/ NextInterleave \/ NextPolling
          \/ NextRole \/ NextSupervisor

Spec == Init /\ [][Next]_vars
SpecPresence == Init /\ [][NextPresence]_vars
SpecService == Init /\ [][NextService]_vars
SpecCommands == Init /\ [][NextCommands]_vars
SpecQueue == Init /\ [][NextQueue]_vars
SpecAccounts == Init /\ [][NextAccounts]_vars
SpecInterleave == Init /\ [][NextInterleave]_vars
SpecPolling == Init /\ [][NextPolling]_vars /\ FairPolling
SpecRole == Init /\ [][NextRole]_vars
SpecSupervisor == Init /\ [][NextSupervisor]_vars
SpecValidation == Init /\ [][NextValidation]_vars

SpecRetry == Init /\ [][NextRetry]_vars /\ FairRetry

\* ------------------------------------------------------------------ claims

\* The open segments of an account: its rows with disconnectedAt = null.
OpenSegments(h, uid) ==
  {i \in 1..Len(h) : h[i].userId = uid /\ h[i].disconnectedAt = NULL}

\* The account a stored e-mail belongs to.
Employee(u) == u \in DOMAIN users /\ ~users[u].deleted /\ users[u].role = "Employee"

\* C1: in every reachable state every account has at most one
\* PresenceHistory segment with disconnectedAt = null, whatever sequence of
\* setOnline and setOffline calls ran.
C1_AtMostOneOpenSegment ==
  \A u \in DOMAIN users : Cardinality(OpenSegments(history, u)) <= 1

\* C2: in every reachable state every PendingCommand with acknowledged =
\* true has published = true.
C2_AcknowledgedImpliesPublished ==
  \A i \in 1..Len(commands) : commands[i].acknowledged => commands[i].published

\* C3: when the command-issue operation answers its caller with success, a
\* PendingCommand row for that command (its target, kind and issued-at
\* timestamp) is in the store at the time of the answer; and no command
\* answered with success ends without a row (dropped, or its failure to
\* persist thrown to the runtime).
C3_SentImpliesPersisted ==
  /\ (resp.op = "CamaraCommand" /\ resp.status = 200) =>
       \E i \in 1..Len(commands) :
         /\ commands[i].employeeId \in FindByEmail(resp.msg.employeeEmail)
         /\ commands[i].command = resp.msg.command
         /\ commands[i].timestamp = resp.msg.timestamp
  /\ resp.op = "ProcessCommand" => resp.outcome \notin {"dropped", "thrown"}

\* C4: a setOnline or setOffline call in which a storage step fails has
\* left no write of its own in PresenceState or PresenceHistory.
C4_FailedCallWroteNothing ==
  (resp.op = "PresenceUpdate" /\ resp.status # 200) => resp.wrote = {}

\* C5: tryDeliver on a freshly enqueued command whose target is online,
\* with the broadcast succeeding, returns true, sets published, publishedAt
\* and attemptCount = 1 on the row, and broadcasts exactly once, with the
\* row's id, command and timestamp.
C5_DeliverySuccess ==
  (resp.op = "tryDeliverCommand" /\ resp.fresh /\ resp.online /\ resp.channelUp) =>
    /\ resp.result = "true"
    /\ commands[resp.id].published
    /\ commands[resp.id].publishedAt # NULL
    /\ commands[resp.id].attemptCount = 1
    /\ resp.broadcasts = 1
    /\ Len(sent) > 0
    /\ sent[Len(sent)].payload = Payload(resp.id, commands[resp.id])

\* C6: tryDeliver on a command whose target is offline (a target without a
\* Presence row included) returns false, broadcasts nothing and leaves the
\* row with published = false and attemptCount = 0.
C6_DeliveryGating ==
  (resp.op = "tryDeliverCommand" /\ resp.fresh /\ ~resp.online) =>
    /\ resp.result = "false"
    /\ resp.broadcasts = 0
    /\ ~commands[resp.id].published
    /\ commands[resp.id].attemptCount = 0

\* C7: with the target online and the broadcast call failing, tryDeliver
\* returns false instead of raising, and leaves the row as it was.
C7_BroadcastFailureReturnsFalse ==
  (resp.op = "tryDeliverCommand" /\ resp.online /\ ~resp.channelUp) =>
    /\ resp.result = "false"
    /\ ~resp.changed

\* C8: when the command is persisted and the immediate broadcast, or the
\* update that marks it published, fails, processCommand does not fail: the
\* message is consumed, the row stays in the store with published = false,
\* open to a later delivery attempt.
C8_DeliveryFailureAbsorbed ==
  (resp.op = "ProcessCommand" /\ resp.id # 0 /\ resp.cause \in {"broadcast", "update"}) =>
    /\ resp.outcome = "pending"
    /\ resp.id \in 1..Len(commands)
    /\ ~commands[resp.id].published
    /\ commands[resp.id].publishedAt = NULL
    /\ ~commands[resp.id].acknowledged

\* C8 witness: a command was persisted, broadcast, and the update marking
\* it published failed.
C8_Witness ==
  /\ resp.op = "ProcessCommand" /\ resp.cause = "update" /\ resp.id # 0
  /\ \E k \in 1..Len(sent) : sent[k].payload.id = resp.id

\* C9: a command issued while its target is offline causes no broadcast
\* and its row stays published = false.
C9_NoBroadcastWhileOffline ==
  (resp.op = "ProcessCommand" /\ resp.id # 0 /\ ~resp.online) =>
    /\ ~commands[resp.id].published
    /\ \A k \in 1..Len(sent) : sent[k].payload.id # resp.id

\* C10: acknowledging ids that are already acknowledged raises no error,
\* leaves them acknowledged, and updatedCount counts every id of the
\* request that names a stored row, the already acknowledged ones included.
C10_AcknowledgeIdempotent ==
  (resp.op = "AcknowledgeCommand" /\ resp.already # {} /\ resp.cause = "none"
     /\ \E u \in FindByOid(resp.caller) : Employee(u)) =>
    /\ resp.status = 200
    /\ \A i \in resp.already : commands[i].acknowledged
    /\ resp.updatedCount = Cardinality(resp.ids \cap (1..Len(commands)))
    /\ resp.updatedCount >= Cardinality(resp.already)

\* C10 witness: an acknowledge request that names an already acknowledged
\* row was answered.
C10_Witness ==
  resp.op = "AcknowledgeCommand" /\ resp.status = 200 /\ resp.already # {}

\* The PresenceHistory rows of an account.
SegmentsOf(h, uid) == {i \in 1..Len(h) : h[i].userId = uid}

\* C11: setOffline(A) run right after setOnline(A) on an account that had
\* no history (so A has one segment, and the call closes it, with no other
\* call on A in between) leaves exactly one row of A with a non-null
\* disconnectedAt, equal to the call's timestamp, no open segment, and
\* PresenceState(A) offline with lastSeenAt equal to that timestamp.
C11_HistoryClosure ==
  (/\ resp.op = "PresenceUpdate" /\ resp.status = 200
   /\ resp.kind = "offline" /\ resp.alone
   /\ "history" \in resp.wrote
   /\ Cardinality(SegmentsOf(history, resp.uid)) = 1) =>
    /\ \A i \in SegmentsOf(history, resp.uid) :
         history[i].disconnectedAt = Some(resp.now)
    /\ OpenSegments(history, resp.uid) = {}
    /\ presence[resp.uid] = Some([status |-> "offline", lastSeenAt |-> resp.now])

\* C11 witness: such a setOffline call has just returned, after the clock
\* moved on from the time the segment was opened.
C11_Witness ==
  /\ resp.op = "PresenceUpdate" /\ resp.status = 200
  /\ resp.kind = "offline" /\ resp.alone
  /\ "history" \in resp.wrote
  /\ Cardinality(SegmentsOf(history, resp.uid)) = 1
  /\ \E i \in SegmentsOf(history, resp.uid) : history[i].connectedAt < resp.now

\* The live accounts a reference resolves to.
Resolves(key) ==
  {u \in DOMAIN users :
     /\ ~users[u].deleted
     /\ key \in {users[u].azureAdObjectId, users[u].email}}

\* C12: getStatus(A) for an existing, non-deleted account returns the
\* status stored in A's PresenceState row, offline when A has no row, and
\* the call changes no PresenceState or PresenceHistory row.
C12_GetStatus ==
  [][(/\ resp'.op = "presenceService" /\ resp'.kind = "status"
      /\ resp'.result # "StorageError"
      /\ Resolves(resp'.key) # {}) =>
       /\ \E u \in Resolves(resp'.key) :
            /\ presence[u] = NULL => resp'.result = "offline"
            /\ \A r \in presence[u] : resp'.result = r.status
       /\ presence' = presence
       /\ history' = history]_vars

\* C12 witnesses: getStatus answered offline for an account with no row
\* while another account was online, and answered online for one with a row.
C12_Witness ==
  /\ resp.op = "presenceService" /\ resp.kind = "status"
  /\ resp.result = "offline"
  /\ \E u \in Resolves(resp.key) : presence[u] = NULL
  /\ \E v \in DOMAIN users : \E r \in presence[v] : r.status = "online"

\* C13: setOnline, setOffline and getStatus called with a reference that
\* resolves to no account, or to a soft-deleted one, fail with the
\* not-found error and leave PresenceState and PresenceHistory unchanged;
\* no call on any account is started.
C13_UnknownReference ==
  [][(/\ Idle
      /\ resp'.op = "presenceService"
      /\ resp'.result # "StorageError"
      /\ Resolves(resp'.key) = {}) =>
       /\ resp'.result = "NotFound"
       /\ presence' = presence
       /\ history' = history
       /\ calls' = calls]_vars

\* C13 witness: a call naming the soft-deleted account was refused while
\* the store held presence rows and history.
C13_Witness ==
  /\ resp.op = "presenceService"
  /\ resp.kind = "online"
  /\ resp.key \in {"o4", "d4@x"}
  /\ resp.result = "NotFound"
  /\ Len(history) > 0

\* The unacknowledged rows addressed to an account.
Unacknowledged(cs, uid) ==
  {i \in 1..Len(cs) : cs[i].employeeId = uid /\ ~cs[i].acknowledged}

\* C14: end to end, a command enqueued for employee X while X was offline
\* and then handed to tryDeliver once X is online (X's last presence report
\* is not older than the row, the broadcast channel is up) has published =
\* true and attemptCount = 1, and is still what listUnacknowledged(X)
\* returns, until it is acknowledged.
C14_EnqueueThenDeliver ==
  (/\ resp.op = "tryDeliverCommand"
   /\ resp.fresh /\ resp.online /\ resp.channelUp
   /\ \E r \in presence[commands[resp.id].employeeId] :
        commands[resp.id].createdAt <= r.lastSeenAt) =>
    /\ resp.result = "true"
    /\ commands[resp.id].published
    /\ commands[resp.id].attemptCount = 1
    /\ resp.id \in Unacknowledged(commands, commands[resp.id].employeeId)

\* C15: enqueue adds exactly one PendingCommand, with the given target,
\* kind and issued-at timestamp and with published = false, acknowledged =
\* false, attemptCount = 0; it broadcasts nothing and changes no other
\* PendingCommand, PresenceState or PresenceHistory row.
C15_EnqueuePureCreation ==
  [][(resp'.op = "createPendingCommand" /\ resp'.result = "created") =>
       /\ Len(commands') = Len(commands) + 1
       /\ SubSeq(commands', 1, Len(commands)) = commands
       /\ resp'.id = Len(commands')
       /\ commands'[resp'.id].employeeId = resp'.employeeId
       /\ commands'[resp'.id].command = resp'.command
       /\ commands'[resp'.id].timestamp = resp'.timestamp
       /\ ~commands'[resp'.id].published
       /\ commands'[resp'.id].publishedAt = NULL
       /\ ~commands'[resp'.id].acknowledged
       /\ commands'[resp'.id].attemptCount = 0
       /\ sent' = sent
       /\ presence' = presence
       /\ history' = history]_vars

\* C15 witness: a second command was enqueued for an employee, beside an
\* acknowledged one of the same employee.
C15_Witness ==
  /\ resp.op = "createPendingCommand" /\ resp.result = "created"
  /\ resp.id = 2
  /\ commands[1].acknowledged
  /\ commands[1].employeeId = resp.employeeId

\* C16: listUnacknowledged(A) returns exactly the records whose target is A
\* and whose acknowledged flag is false, each once, oldest-created first,
\* and changes no stored state.
C16_ListUnacknowledged ==
  [][(resp'.op = "getPendingCommandsForEmployee" /\ resp'.result = "returned") =>
       /\ {resp'.list[k] : k \in DOMAIN resp'.list} =
            Unacknowledged(commands, resp'.employeeId)
       /\ Len(resp'.list) = Cardinality(Unacknowledged(commands, resp'.employeeId))
       /\ \A a, b \in DOMAIN resp'.list :
            a < b => commands[resp'.list[a]].createdAt <= commands[resp'.list[b]].createdAt
       /\ UNCHANGED <<users, presence, history, commands, bus, sent>>]_vars

\* C16 witness: the list holds one of the employee's two records, the
\* other being acknowledged.
C16_Witness ==
  /\ resp.op = "getPendingCommandsForEmployee" /\ resp.result = "returned"
  /\ Len(resp.list) = 1
  /\ \E i \in 1..Len(commands) :
       commands[i].employeeId = resp.employeeId /\ commands[i].acknowledged

\* C17: GET pending returns null exactly when the employee has no
\* unacknowledged command, otherwise one unacknowledged command of that
\* employee with the greatest issued-at timestamp; never an acknowledged
\* one or one addressed to another account; it changes no stored state.
C17_FetchLatest ==
  [][(resp'.op = "FetchPendingCommands" /\ resp'.status = 200) =>
       /\ resp'.pending = NULL <=> Unacknowledged(commands, resp'.uid) = {}
       /\ Cardinality(resp'.pending) <= 1
       /\ \A i \in resp'.pending :
            /\ i \in Unacknowledged(commands, resp'.uid)
            /\ \A j \in Unacknowledged(commands, resp'.uid) :
                 commands[j].timestamp <= commands[i].timestamp
       /\ UNCHANGED <<users, presence, history, commands, bus, sent>>]_vars

\* C17 witness: the command returned was created before another
\* unacknowledged command of the employee that was issued earlier.
C17_Witness ==
  /\ resp.op = "FetchPendingCommands" /\ resp.status = 200
  /\ \E i \in resp.pending : \E j \in Unacknowledged(commands, resp.uid) :
       i < j /\ commands[j].timestamp < commands[i].timestamp

\* The number of broadcasts accepted for a record.
BroadcastsOf(s, id) == Cardinality({k \in 1..Len(s) : s[k].payload.id = id})

\* C18: attemptCount of a PendingCommand is at most the number of
\* successful broadcasts of the record in every reachable state; a record
\* starts at 0 and every step either leaves the count as it is or adds one
\* together with one more broadcast of that record (so enqueue,
\* acknowledge, GET pending, an offline attempt and a failed broadcast
\* leave it unchanged).
C18_AttemptCount ==
  /\ [](\A i \in 1..Len(commands) :
          commands[i].attemptCount <= BroadcastsOf(sent, i))
  /\ [][/\ Len(commands') >= Len(commands)
        /\ \A i \in 1..Len(commands') :
             IF i > Len(commands)
             THEN commands'[i].attemptCount = 0
             ELSE \/ commands'[i].attemptCount = commands[i].attemptCount
                  \/ /\ commands'[i].attemptCount = commands[i].attemptCount + 1
                     /\ BroadcastsOf(sent', i) = BroadcastsOf(sent, i) + 1]_vars

\* C18 witness: a record that was broadcast has been acknowledged and a
\* delivery attempt on it has ended.
C18_Witness ==
  /\ resp.op = "tryDeliverCommand"
  /\ commands[resp.id].acknowledged
  /\ BroadcastsOf(sent, resp.id) > 0

\* C19: command processing creates no PendingCommand and sends no
\* broadcast for a target account whose soft-delete marker is set at the
\* moment the command is processed.
C19_NoCommandForDeletedAccount ==
  (resp.op = "ProcessCommand" /\ resp.id # 0) =>
    \A u \in DOMAIN users :
      users[u].deleted =>
        /\ commands[resp.id].employeeId # u
        /\ \A k \in 1..Len(sent) :
             sent[k].payload.id = resp.id => sent[k].group # ToLower(users[u].email)

\* C20: at the moment a PendingCommand is created its target account has
\* role Employee, whatever role changes ran between the issue of the
\* command and its processing.
C20_TargetIsEmployee ==
  (resp.op = "ProcessCommand" /\ resp.id # 0) =>
    \A u \in DOMAIN users :
      commands[resp.id].employeeId = u => users[u].role = "Employee"

\* The account a stored command is addressed to.
TargetOf(id) == {u \in DOMAIN users : commands[id].employeeId = u}

\* C21: every broadcast of a command, on every delivery path, is sent to
\* the group named by the target account's stable external identity id
\* (azureAdObjectId) in normalized lower-case form.
C21_GroupIsExternalId ==
  \A k \in 1..Len(sent) : \A u \in TargetOf(sent[k].payload.id) :
    sent[k].group = ToLower(users[u].azureAdObjectId)

\* C22: with the retry sweep calling tryDeliver on every stored record
\* again and again and the broadcast channel up, a persisted PendingCommand
\* whose target is online from some time on eventually has published =
\* true.
C22_EventuallyPublished ==
  \A id \in CommandIds :
    <>[](/\ id \in 1..Len(commands)
         /\ \A u \in TargetOf(id) : StatusOf(presence, u) = "online")
      => <>(id \in 1..Len(commands) /\ commands[id].published)

\* The live Admin accounts of a caller identity.
AdminOf(oid) ==
  {u \in DOMAIN users :
     /\ users[u].azureAdObjectId = oid
     /\ ~users[u].deleted
     /\ users[u].role = "Admin"}

\* C23: a ChangeUserRole request whose caller has no account record, is
\* deleted, or has a role other than Admin is rejected, changes no
\* account's role, creates no account and removes none (stated for the
\* requests the handler answers itself, not through setUserOffline).
C23_OnlyAdminChangesRoles ==
  [][(/\ Idle
      /\ resp'.op = "ChangeUserRole"
      /\ calls' = calls
      /\ AdminOf(resp'.caller) = {}) =>
       /\ resp'.status \in {401, 403}
       /\ users' = users]_vars

\* C24: a command message is put on the queue only by a CamaraCommand
\* request whose caller is a non-deleted account with role Admin or
\* Supervisor and whose target, looked up by the e-mail as given, is a
\* non-deleted account with role Employee; every other request sends no
\* message and is answered with an error.
C24_CommandAuthorization ==
  [][/\ bus' \ bus # {} => resp'.op = "CamaraCommand"
     /\ (Idle /\ resp'.op = "CamaraCommand") =>
          LET okCaller == \E u \in DOMAIN users :
                            /\ users[u].azureAdObjectId = resp'.caller
                            /\ ~users[u].deleted
                            /\ users[u].role \in {"Admin", "Supervisor"}
              okTarget == \E u \in DOMAIN users :
                            /\ users[u].email = resp'.employeeEmail
                            /\ ~users[u].deleted
                            /\ users[u].role = "Employee"
          IN  /\ bus' # bus => okCaller /\ okTarget /\ resp'.status = 200
              /\ ~(okCaller /\ okTarget) =>
                   bus' = bus /\ resp'.status \in {400, 401}]_vars

\* C24 witness: the admin's command for e1@x was refused because the
\* account is no longer an Employee.
C24_Witness ==
  /\ resp.op = "CamaraCommand" /\ resp.status = 400
  /\ resp.caller = "o3" /\ resp.employeeEmail = "e1@x"
  /\ \E u \in FindByOid("o1") : users[u].role = "Supervisor" /\ ~users[u].deleted

\* C25: a request whose body the schema refuses (a status other than
\* online/offline, a command kind other than START/STOP, an id list holding
\* an id that is not well formed) is answered with an error, 400 from the
\* validation whenever the request reaches it, and changes no presence
\* state, no history row and no pending command, begins no presence call
\* and sends no message.
C25_ValidationBeforeMutation ==
  [][LET Malformed ==
           \/ /\ resp'.op = "PresenceUpdate"
              /\ resp'.kind \notin {"online", "offline"}
           \/ /\ resp'.op = "CamaraCommand"
              /\ resp'.command \notin {"START", "STOP"}
           \/ /\ resp'.op = "AcknowledgeCommand"
              /\ MalformedId \in resp'.body
         Passes(roles) ==
           /\ resp'.cause # "callerLookup"
           /\ \E u \in DOMAIN users : /\ users[u].azureAdObjectId = resp'.caller
                                      /\ ~users[u].deleted
                                      /\ users[u].role \in roles
         Reached ==
           \/ resp'.op = "PresenceUpdate"
           \/ resp'.op = "CamaraCommand" /\ Passes({"Admin", "Supervisor"})
           \/ resp'.op = "AcknowledgeCommand" /\ Passes({"Employee"})
     IN  (Idle /\ Malformed) =>
           /\ resp'.status \in {400, 401}
           /\ Reached => resp'.status = 400
           /\ presence' = presence /\ history' = history
           /\ commands' = commands /\ calls' = calls
           /\ bus' = bus /\ sent' = sent]_vars

\* C25 witness: an acknowledgement naming an unacknowledged command and a
\* malformed id was refused by the validation.
C25_Witness ==
  /\ resp.op = "AcknowledgeCommand" /\ resp.status = 400
  /\ MalformedId \in resp.body
  /\ \E i \in resp.body \cap (1..Len(commands)) : ~commands[i].acknowledged

\* C26: a storage failure raised inside the handler body of an HTTP
\* function wrapped by withErrorHandler (here the caller lookup, the first
\* statement of the body, failing) is answered with status 500.
C26_StorageFailureIs500 ==
  [][(/\ Idle
      /\ resp'.op \in {"CamaraCommand", "AcknowledgeCommand"}
      /\ resp'.cause = "callerLookup") => resp'.status = 500]_vars

\* C27: a setOnline(A) call that succeeds adds exactly one history row, of
\* A, with connectedAt = the call's timestamp and disconnectedAt = null, and
\* alters no existing row, whatever segments A already has; so the number
\* of open segments of A grows by one with each such call.
C27_OnlineAppends ==
  [][(/\ Idle
      /\ resp'.op = "PresenceUpdate" /\ resp'.status = 200
      /\ resp'.kind = "online") =>
       /\ Len(history') = Len(history) + 1
       /\ \A i \in 1..Len(history) : history'[i] = history[i]
       /\ history'[Len(history')] =
            [userId |-> resp'.uid, connectedAt |-> resp'.now,
             disconnectedAt |-> {}]
       /\ Cardinality({i \in 1..Len(history') :
                         /\ history'[i].userId = resp'.uid
                         /\ history'[i].disconnectedAt = {}})
            = 1 + Cardinality({i \in 1..Len(history) :
                                 /\ history[i].userId = resp'.uid
                                 /\ history[i].disconnectedAt = {}})]_vars

\* C27 witness: a second setOnline call on an account returned with no
\* setOffline in between, and the account has two open segments.
C27_Witness ==
  /\ resp.op = "PresenceUpdate" /\ resp.status = 200 /\ resp.kind = "online"
  /\ resp.alone
  /\ Cardinality(SegmentsOf(history, resp.uid)) = 2
  /\ \A i \in SegmentsOf(history, resp.uid) : history[i].disconnectedAt = {}

\* C28: a setOffline(A) call that succeeds changes at most one history
\* row, a row of A, by setting its disconnectedAt to the call's timestamp,
\* and adds none; run with no other call on A in flight, it closes exactly
\* the open segment of A with the latest connectedAt, or, when A has no open
\* segment, changes no history row and still returns with PresenceState(A)
\* offline at the call's timestamp.
C28_OfflineClosesOne ==
  [][(/\ Idle
      /\ resp'.op = "PresenceUpdate" /\ resp'.status = 200
      /\ resp'.kind = "offline") =>
       LET uid == resp'.uid
           changed == {i \in 1..Len(history) : history'[i] # history[i]}
           open == {i \in 1..Len(history) :
                      history[i].userId = uid /\ history[i].disconnectedAt = {}}
       IN  /\ Len(history') = Len(history)
           /\ Cardinality(changed) <= 1
           /\ \A i \in changed :
                /\ history[i].userId = uid
                /\ history'[i] = [history[i] EXCEPT !.disconnectedAt = {resp'.now}]
           /\ resp'.alone =>
                /\ presence'[uid] = {[status |-> "offline", lastSeenAt |-> resp'.now]}
                /\ IF open = {}
                   THEN history' = history /\ "history" \notin resp'.wrote
                   ELSE /\ Cardinality(changed) = 1
                        /\ \A i \in changed :
                             /\ i \in open
                             /\ \A j \in open :
                                  history[j].connectedAt <= history[i].connectedAt]_vars

\* C28 witness: a setOffline call closed the later of two open segments of
\* the account and left the earlier one open.
C28_Witness ==
  /\ resp.op = "PresenceUpdate" /\ resp.status = 200 /\ resp.kind = "offline"
  /\ resp.alone
  /\ \E i, j \in SegmentsOf(history, resp.uid) :
       /\ history[i].disconnectedAt = {resp.now}
       /\ history[j].disconnectedAt = {}
       /\ history[j].connectedAt < history[i].connectedAt

\* C29: no step of any setOnline/setOffline call, however the calls on an
\* account interleave, changes a history row whose disconnectedAt is
\* already set.
C29_ClosedOnce ==
  [][\A i \in 1..Len(history) :
       history[i].disconnectedAt # {} => history'[i] = history[i]]_vars

\* C30: whenever no setOnline/setOffline call is in flight for an account,
\* a PresenceState of online implies that the account has at least one
\* open history segment.
C30_OnlineHasOpenSegment ==
  \A u \in DOMAIN users :
    (/\ \A c \in calls : c.uid # u
     /\ StatusOf(presence, u) = "online") =>
      OpenSegments(history, u) # {}

\* C31: markCommandsDelivered(ids) that returns gives the number of ids
\* naming a stored PendingCommand, sets acknowledged = true and
\* acknowledgedAt = the time of the call on exactly those rows, raises no
\* error for ids naming no row, and leaves every other field of those rows
\* and every field of the other rows as they were; with no ids it returns 0
\* and changes nothing.
C31_AcknowledgeFrame ==
  [][(/\ Idle
      /\ resp'.op = "markCommandsDelivered"
      /\ resp'.result = "returned") =>
       /\ resp'.count = Cardinality(resp'.ids \cap (1..Len(commands)))
       /\ Len(commands') = Len(commands)
       /\ \A i \in 1..Len(commands) :
            IF i \in resp'.ids
            THEN commands'[i] = [commands[i] EXCEPT !.acknowledged = TRUE,
                                                    !.acknowledgedAt = {clock}]
            ELSE commands'[i] = commands[i]
       /\ resp'.ids = {} => resp'.count = 0 /\ commands' = commands]_vars

\* C31 witness: a call naming a stored row and an id that names none
\* returned 1, while another stored row stayed unacknowledged.
C31_Witness ==
  /\ resp.op = "markCommandsDelivered" /\ resp.result = "returned"
  /\ resp.count = 1
  /\ \E i \in resp.ids : i > Len(commands)
  /\ \E j \in 1..Len(commands) : j \notin resp.ids /\ ~commands[j].acknowledged

\* C32: every tryDeliver call on a record whose target is online, made with
\* the broadcast channel up (a call on an already published record
\* included), broadcasts the record once more and adds exactly one to its
\* attemptCount, so n such calls add n.
C32_AttemptCountNoLostUpdate ==
  [][(/\ Idle
      /\ resp'.op = "tryDeliverCommand"
      /\ resp'.online /\ resp'.channelUp) =>
       /\ resp'.result = "true"
       /\ commands'[resp'.id].attemptCount = commands[resp'.id].attemptCount + 1
       /\ BroadcastsOf(sent', resp'.id) = BroadcastsOf(sent, resp'.id) + 1]_vars

\* C33: under the command queue and presence operations no step turns
\* published or acknowledged of a PendingCommand back to false, lowers its
\* attemptCount, changes its target, or removes a PendingCommand or
\* PresenceHistory row; so a command leaves the list of unacknowledged
\* commands of its target only by being acknowledged.
C33_MonotonicLifecycle ==
  [][/\ Len(commands') >= Len(commands)
     /\ Len(history') >= Len(history)
     /\ \A i \in 1..Len(history) : history'[i].userId = history[i].userId
     /\ \A i \in 1..Len(commands) :
          /\ commands'[i].employeeId = commands[i].employeeId
          /\ commands[i].published => commands'[i].published
          /\ commands[i].acknowledged => commands'[i].acknowledged
          /\ commands'[i].attemptCount >= commands[i].attemptCount
          /\ ~commands'[i].acknowledged =>
               \A u \in DOMAIN users :
                 (commands[i].employeeId = u /\ ~commands[i].acknowledged) =>
                   (commands'[i].employeeId = u /\ ~commands'[i].acknowledged)]_vars

\* C33 witness: GET pending returned a command that had been broadcast and
\* marked published, after the employee's presence calls had written
\* history.
C33_Witness ==
  /\ resp.op = "FetchPendingCommands" /\ resp.status = 200
  /\ \E i \in resp.pending : commands[i].published /\ ~commands[i].acknowledged
  /\ \E k \in 1..Len(history) : history[k].userId = resp.uid

\* C34: in every reachable state a PendingCommand with published = true
\* has a publishedAt and attemptCount >= 1, one with published = false has
\* attemptCount = 0, and one with acknowledged = true has an acknowledgedAt.
C34_FlagsConsistent ==
  \A i \in 1..Len(commands) :
    /\ commands[i].published =>
         commands[i].publishedAt # {} /\ commands[i].attemptCount >= 1
    /\ ~commands[i].published => commands[i].attemptCount = 0
    /\ commands[i].acknowledged => commands[i].acknowledgedAt # {}

\* C35: once GET pending has returned to an employee a command with
\* issued-at timestamp t, no later GET pending of that employee returns a
\* command with an earlier issued-at timestamp.
C35_FetchInIssueOrder ==
  \A t \in 1..MaxTime :
    []((/\ resp.op = "FetchPendingCommands" /\ resp.status = 200
        /\ \E i \in resp.pending : commands[i].timestamp = t) =>
         [](\A i \in 1..Len(commands) :
              (/\ resp.op = "FetchPendingCommands" /\ resp.status = 200
               /\ i \in resp.pending) => commands[i].timestamp >= t))

\* C36: an acknowledge request changes acknowledged/acknowledgedAt only on
\* PendingCommand rows whose target is the calling employee, and a caller
\* that is not a non-deleted Employee account changes no row.
C36_AcknowledgeOwnOnly ==
  [][(Idle /\ resp'.op = "AcknowledgeCommand") =>
       /\ Len(commands') = Len(commands)
       /\ \A i \in 1..Len(commands) :
            commands'[i] # commands[i] =>
              \E u \in DOMAIN users :
                /\ users[u].azureAdObjectId = resp'.caller
                /\ ~users[u].deleted /\ users[u].role = "Employee"
                /\ commands[i].employeeId = u]_vars

\* C37: for every stored command whose target account exists, the group
\* each delivery path names for it is the group the target's client token
\* is scoped to: every broadcast made for the command went to that group,
\* and the group tryDeliverCommand hands to sendToGroup for it is that group.
C37_GroupMatchesToken ==
  \A i \in 1..Len(commands) : \A u \in TargetOf(i) :
    /\ \A k \in 1..Len(sent) :
         sent[k].payload.id = i => sent[k].group = TokenGroup(u)
    /\ TryDeliverGroup(commands[i]) = TokenGroup(u)

\* C38: when ChangeUserRole has assigned the role Employee and answers
\* 200, the account has role Employee and, no other presence call on it
\* having run meanwhile, a PresenceState row with status offline; the
\* request added no history row and changed at most one, the account's
\* latest open segment, by closing it.
C38_RoleChangeInitializesPresence ==
  [][(/\ Idle
      /\ resp'.op = "ChangeUserRole" /\ resp'.status = 200
      /\ calls' # calls) =>
       LET uid == resp'.uid
           changed == {i \in 1..Len(history) : history'[i] # history[i]}
           open == {i \in 1..Len(history) :
                      history[i].userId = uid /\ history[i].disconnectedAt = {}}
       IN  /\ users'[uid].role = "Employee"
           /\ Len(history') = Len(history)
           /\ Cardinality(changed) <= 1
           /\ \A i \in changed :
                /\ history[i].userId = uid
                /\ history'[i] = [history[i] EXCEPT !.disconnectedAt = {resp'.now}]
           /\ resp'.alone =>
                /\ presence'[uid] = {[status |-> "offline", lastSeenAt |-> resp'.now]}
                /\ \A i \in changed :
                     /\ i \in open
                     /\ \A j \in open :
                          history[j].connectedAt <= history[i].connectedAt]_vars

\* C38 witness: a role change to Employee answered 200 for an account with
\* two open segments, of which it closed the later one.
C38_Witness ==
  /\ resp.op = "ChangeUserRole" /\ resp.status = 200
  /\ "uid" \in DOMAIN resp
  /\ "history" \in resp.wrote /\ resp.alone
  /\ \E i, j \in SegmentsOf(history, resp.uid) :
       /\ history[i].disconnectedAt = {resp.now}
       /\ history[j].disconnectedAt = {}
       /\ history[j].connectedAt < history[i].connectedAt

\* C39: ChangeSupervisor answers 200 only for a non-deleted Admin caller
\* and a non-deleted new supervisor with role Supervisor; it sets
\* supervisorId, to the new supervisor, only on non-deleted accounts with
\* role Employee whose e-mail is in the request and changes the
\* supervisorId of no other account; no account becomes its own
\* supervisor; updatedCount is the number of employees reassigned.
C39_ReassignsEmployeesOnly ==
  [][(Idle /\ resp'.op = "ChangeSupervisor") =>
       LET sups == {u \in DOMAIN users :
                      /\ users[u].email = resp'.newSupervisorEmail
                      /\ ~users[u].deleted /\ users[u].role = "Supervisor"}
           employees == {u \in DOMAIN users :
                           /\ users[u].email \in resp'.userEmails
                           /\ ~users[u].deleted /\ users[u].role = "Employee"}
       IN  /\ DOMAIN users' = DOMAIN users
           /\ resp'.status = 200 =>
                /\ \E u \in DOMAIN users : /\ users[u].azureAdObjectId = resp'.caller
                                           /\ ~users[u].deleted
                                           /\ users[u].role = "Admin"
                /\ sups # {}
                /\ resp'.updatedCount = Cardinality(employees)
           /\ \A u \in DOMAIN users :
                /\ users'[u].supervisorId # users[u].supervisorId =>
                     /\ resp'.status = 200
                     /\ u \in employees
                     /\ users'[u].supervisorId \subseteq sups
                /\ users'[u].supervisorId # {u}]_vars

====
